---- MODULE Spec2Model ----
(***************************************************************************)
(* A model of fs/mode.py: the Mode value wrapping an open() mode string,   *)
(* its validation rules, its derived facets, and the module's four free    *)
(* functions.  A string is a sequence of one-character strings.            *)
(***************************************************************************)
EXTENDS Integers, Sequences, FiniteSets, TLC

\* Longest caller-supplied mode string explored.
MaxLen == 3

\* Characters a caller may put in a mode string: the seven flags and one
\* character ("z") that is no flag.
Chars ==
    {"r", "w", "x", "t", "a", "b", "+", "z"}

\* Every string over Chars of length 0..MaxLen.
Strings ==
    UNION {[1..n -> Chars] : n \in 0..MaxLen}

VARIABLES
    mode,    \* the string the caller supplies to every call of this run
    PY2,     \* six.PY2: TRUE on the legacy platform without exclusive create
    self,    \* the Mode instance, [_mode |-> raw string]
    alive,   \* TRUE once Mode(mode) returned an instance to the caller
    op,      \* the last call made
    arg,     \* the string passed to the last call (empty when it takes none)
    ret,     \* what the last call returned (None when it raised)
    exc      \* the exception the last call raised (NoError when it returned)

vars ==
    <<mode, PY2, self, alive, op, arg, ret, exc>>

-----------------------------------------------------------------------------
(* Values *)

None ==
    "None"

NoError ==
    [type |-> "None", template |-> "", args |-> <<>>]

\* raise ValueError(template.format(*args))
ValueError(template, args) ==
    [type |-> "ValueError", template |-> template, args |-> args]

MSG_EMPTY ==
    "mode must not be empty"

MSG_INVALID_CHARS ==
    "mode '{}' contains invalid characters"

MSG_BAD_FIRST ==
    "mode must start with 'r', 'w', 'x', or 'a'"

MSG_BIN_AND_TEXT ==
    "mode can't be binary ('b') and text ('t')"

MSG_MUST_BE_BINARY ==
    "mode must be binary"

MSG_OPENBIN_TEXT ==
    "text mode not valid in openbin"

MSG_OPENBIN_BAD_FIRST ==
    "mode must start with 'r', 'w', 'a' or 'x'"

\* frozenset('rwxtab+'), the default of Mode.validate's _valid_chars
_valid_chars ==
    {"r", "w", "x", "t", "a", "b", "+"}

\* frozenset('rwxab+'), the default of validate_openbin_mode's _valid_chars
_valid_chars_openbin ==
    {"r", "w", "x", "a", "b", "+"}

\* the literal 'rwxa' tested with "mode[0] not in 'rwxa'"
rwxa ==
    <<"r", "w", "x", "a">>

-----------------------------------------------------------------------------
(* Built-in string operations the module uses *)

\* c in s, for a one-character c
str_in(c, s) ==
    \E i \in 1..Len(s) : s[i] = c

\* chars.issuperset(s): iterates the characters of s
issuperset(chars, s) ==
    \A i \in 1..Len(s) : s[i] \in chars

\* s.replace(old, new), for a one-character old and a string new
RECURSIVE replace(_, _, _)
replace(s, old, new) ==
    IF s = <<>>
    THEN <<>>
    ELSE (IF Head(s) = old THEN new ELSE <<Head(s)>>) \o replace(Tail(s), old, new)

\* repr(s) of a string without quotes or escapes; under PY2 a unicode string
\* gains the u prefix and a byte string does not
reprs(s, py2) ==
    {<<"'">> \o s \o <<"'">>} \cup (IF py2 THEN {<<"u", "'">> \o s \o <<"'">>} ELSE {})

-----------------------------------------------------------------------------
(* class Mode *)

__contains__(slf, c) ==
    str_in(c, slf._mode)

\* Variant: __str__ returns the quoted form of the string.
__str___quoted(slf) ==
    <<"'">> \o slf._mode \o <<"'">>

__str__(slf) ==
    slf._mode

__repr__(slf, py2) ==
    {<<"M", "o", "d", "e", "(">> \o r \o <<")">> : r \in reprs(slf._mode, py2)}

\* Variant: the platform is ignored and the x characters are kept.
to_platform_keeps_x(slf, py2) ==
    slf._mode

to_platform(slf, py2) ==
    IF py2 THEN replace(slf._mode, "x", <<>>) ELSE slf._mode

\* Variant: the check of the first character is missing.
validate_no_first_check(slf) ==
    LET m == slf._mode
    IN  IF m = <<>>
        THEN ValueError(MSG_EMPTY, <<>>)
        ELSE IF ~ issuperset(_valid_chars, m)
        THEN ValueError(MSG_INVALID_CHARS, <<m>>)
        ELSE IF str_in("t", m) /\ str_in("b", m)
        THEN ValueError(MSG_BIN_AND_TEXT, <<>>)
        ELSE NoError

\* Variant: the first character is checked before the character set.
validate_first_before_chars(slf) ==
    LET m == slf._mode
    IN  IF m = <<>>
        THEN ValueError(MSG_EMPTY, <<>>)
        ELSE IF ~ str_in(m[1], rwxa)
        THEN ValueError(MSG_BAD_FIRST, <<>>)
        ELSE IF ~ issuperset(_valid_chars, m)
        THEN ValueError(MSG_INVALID_CHARS, <<m>>)
        ELSE IF str_in("t", m) /\ str_in("b", m)
        THEN ValueError(MSG_BIN_AND_TEXT, <<>>)
        ELSE NoError

\* Variant: the check of t together with b is missing.
validate_no_conflict_check(slf) ==
    LET m == slf._mode
    IN  IF m = <<>>
        THEN ValueError(MSG_EMPTY, <<>>)
        ELSE IF ~ issuperset(_valid_chars, m)
        THEN ValueError(MSG_INVALID_CHARS, <<m>>)
        ELSE IF ~ str_in(m[1], rwxa)
        THEN ValueError(MSG_BAD_FIRST, <<>>)
        ELSE NoError

\* The exception Mode.validate raises, NoError when it returns.
validate(slf) ==
    LET m == slf._mode
    IN  IF m = <<>>
        THEN ValueError(MSG_EMPTY, <<>>)
        ELSE IF ~ issuperset(_valid_chars, m)
        THEN ValueError(MSG_INVALID_CHARS, <<m>>)
        ELSE IF ~ str_in(m[1], rwxa)
        THEN ValueError(MSG_BAD_FIRST, <<>>)
        ELSE IF str_in("t", m) /\ str_in("b", m)
        THEN ValueError(MSG_BIN_AND_TEXT, <<>>)
        ELSE NoError

\* Variant: a mode without b is refused, instead of a mode with t.
validate_bin_requires_b(slf) ==
    IF validate(slf) # NoError
    THEN validate(slf)
    ELSE IF ~ __contains__(slf, "b")
    THEN ValueError(MSG_MUST_BE_BINARY, <<>>)
    ELSE NoError

\* The exception Mode.validate_bin raises, NoError when it returns.
validate_bin(slf) ==
    IF validate(slf) # NoError
    THEN validate(slf)
    ELSE IF __contains__(slf, "t")
    THEN ValueError(MSG_MUST_BE_BINARY, <<>>)
    ELSE NoError

create(slf) ==
    __contains__(slf, "w") \/ __contains__(slf, "x")

reading(slf) ==
    __contains__(slf, "r") \/ __contains__(slf, "+")

\* Variant: x does not count as writing.
writing_without_x(slf) ==
    __contains__(slf, "w") \/ __contains__(slf, "a") \/ __contains__(slf, "+")

writing(slf) ==
    __contains__(slf, "w") \/ __contains__(slf, "a")
        \/ __contains__(slf, "+") \/ __contains__(slf, "x")

appending(slf) ==
    __contains__(slf, "a")

updating(slf) ==
    __contains__(slf, "+")

truncate(slf) ==
    __contains__(slf, "w") \/ __contains__(slf, "x")

exclusive(slf) ==
    __contains__(slf, "x")

binary(slf) ==
    __contains__(slf, "b")

text(slf) ==
    __contains__(slf, "t") \/ ~ __contains__(slf, "b")

\* Mode(m): __init__ stores the string, then validates it.  The instance
\* reaches the caller only when exc is NoError.
Mode(m) ==
    LET slf == [_mode |-> m]
    IN  [self |-> slf, exc |-> validate(slf)]

-----------------------------------------------------------------------------
(* Free functions: [ret, exc] of a call *)

check_readable(m) ==
    IF Mode(m).exc # NoError
    THEN [ret |-> None, exc |-> Mode(m).exc]
    ELSE [ret |-> reading(Mode(m).self), exc |-> NoError]

check_writable(m) ==
    IF Mode(m).exc # NoError
    THEN [ret |-> None, exc |-> Mode(m).exc]
    ELSE [ret |-> writing(Mode(m).self), exc |-> NoError]

validate_open_mode(m) ==
    [ret |-> None, exc |-> Mode(m).exc]

\* Variant: the character set is checked before the first character.
validate_openbin_mode_charset_first(m) ==
    IF str_in("t", m)
    THEN ValueError(MSG_OPENBIN_TEXT, <<>>)
    ELSE IF m = <<>>
    THEN ValueError(MSG_EMPTY, <<>>)
    ELSE IF ~ issuperset(_valid_chars_openbin, m)
    THEN ValueError(MSG_INVALID_CHARS, <<m>>)
    ELSE IF ~ str_in(m[1], rwxa)
    THEN ValueError(MSG_OPENBIN_BAD_FIRST, <<>>)
    ELSE NoError

\* Variant: the check of the character set is missing.
validate_openbin_mode_no_charset(m) ==
    IF str_in("t", m)
    THEN ValueError(MSG_OPENBIN_TEXT, <<>>)
    ELSE IF m = <<>>
    THEN ValueError(MSG_EMPTY, <<>>)
    ELSE IF ~ str_in(m[1], rwxa)
    THEN ValueError(MSG_OPENBIN_BAD_FIRST, <<>>)
    ELSE NoError

validate_openbin_mode(m) ==
    IF str_in("t", m)
    THEN ValueError(MSG_OPENBIN_TEXT, <<>>)
    ELSE IF m = <<>>
    THEN ValueError(MSG_EMPTY, <<>>)
    ELSE IF ~ str_in(m[1], rwxa)
    THEN ValueError(MSG_OPENBIN_BAD_FIRST, <<>>)
    ELSE IF ~ issuperset(_valid_chars_openbin, m)
    THEN ValueError(MSG_INVALID_CHARS, <<m>>)
    ELSE NoError

-----------------------------------------------------------------------------
(* The state machine: one caller, one mode string, any sequence of calls *)

Init ==
    /\ mode \in Strings
    /\ PY2 \in BOOLEAN
    /\ self = [_mode |-> <<>>]
    /\ alive = FALSE
    /\ op = "start"
    /\ arg = <<>>
    /\ ret = None
    /\ exc = NoError

\* m = Mode(mode)
Call_Mode ==
    /\ self' = Mode(mode).self
    /\ alive' = (Mode(mode).exc = NoError)
    /\ op' = "Mode"
    /\ arg' = mode
    /\ ret' = None
    /\ exc' = Mode(mode).exc
    /\ UNCHANGED <<mode, PY2>>

Call_str ==
    /\ alive
    /\ op' = "__str__"
    /\ arg' = <<>>
    /\ ret' = __str__(self)
    /\ exc' = NoError
    /\ UNCHANGED <<mode, PY2, self, alive>>

Call_repr ==
    /\ alive
    /\ op' = "__repr__"
    /\ arg' = <<>>
    /\ ret' \in __repr__(self, PY2)
    /\ exc' = NoError
    /\ UNCHANGED <<mode, PY2, self, alive>>

Call_contains ==
    \E c \in Chars :
        /\ alive
        /\ op' = "__contains__"
        /\ arg' = <<c>>
        /\ ret' = __contains__(self, c)
        /\ exc' = NoError
        /\ UNCHANGED <<mode, PY2, self, alive>>

Call_to_platform ==
    /\ alive
    /\ op' = "to_platform"
    /\ arg' = <<>>
    /\ ret' = to_platform(self, PY2)
    /\ exc' = NoError
    /\ UNCHANGED <<mode, PY2, self, alive>>

Call_validate ==
    /\ alive
    /\ op' = "validate"
    /\ arg' = <<>>
    /\ ret' = None
    /\ exc' = validate(self)
    /\ UNCHANGED <<mode, PY2, self, alive>>

Call_validate_bin ==
    /\ alive
    /\ op' = "validate_bin"
    /\ arg' = <<>>
    /\ ret' = None
    /\ exc' = validate_bin(self)
    /\ UNCHANGED <<mode, PY2, self, alive>>

Get_create ==
    /\ alive
    /\ op' = "create"
    /\ arg' = <<>>
    /\ ret' = create(self)
    /\ exc' = NoError
    /\ UNCHANGED <<mode, PY2, self, alive>>

Get_reading ==
    /\ alive
    /\ op' = "reading"
    /\ arg' = <<>>
    /\ ret' = reading(self)
    /\ exc' = NoError
    /\ UNCHANGED <<mode, PY2, self, alive>>

Get_writing ==
    /\ alive
    /\ op' = "writing"
    /\ arg' = <<>>
    /\ ret' = writing(self)
    /\ exc' = NoError
    /\ UNCHANGED <<mode, PY2, self, alive>>

Get_appending ==
    /\ alive
    /\ op' = "appending"
    /\ arg' = <<>>
    /\ ret' = appending(self)
    /\ exc' = NoError
    /\ UNCHANGED <<mode, PY2, self, alive>>

Get_updating ==
    /\ alive
    /\ op' = "updating"
    /\ arg' = <<>>
    /\ ret' = updating(self)
    /\ exc' = NoError
    /\ UNCHANGED <<mode, PY2, self, alive>>

Get_truncate ==
    /\ alive
    /\ op' = "truncate"
    /\ arg' = <<>>
    /\ ret' = truncate(self)
    /\ exc' = NoError
    /\ UNCHANGED <<mode, PY2, self, alive>>

Get_exclusive ==
    /\ alive
    /\ op' = "exclusive"
    /\ arg' = <<>>
    /\ ret' = exclusive(self)
    /\ exc' = NoError
    /\ UNCHANGED <<mode, PY2, self, alive>>

Get_binary ==
    /\ alive
    /\ op' = "binary"
    /\ arg' = <<>>
    /\ ret' = binary(self)
    /\ exc' = NoError
    /\ UNCHANGED <<mode, PY2, self, alive>>

Get_text ==
    /\ alive
    /\ op' = "text"
    /\ arg' = <<>>
    /\ ret' = text(self)
    /\ exc' = NoError
    /\ UNCHANGED <<mode, PY2, self, alive>>

\* The free functions build and drop their own Mode: the caller's instance is
\* not involved.
Call_check_readable ==
    /\ op' = "check_readable"
    /\ arg' = mode
    /\ ret' = check_readable(mode).ret
    /\ exc' = check_readable(mode).exc
    /\ UNCHANGED <<mode, PY2, self, alive>>

Call_check_writable ==
    /\ op' = "check_writable"
    /\ arg' = mode
    /\ ret' = check_writable(mode).ret
    /\ exc' = check_writable(mode).exc
    /\ UNCHANGED <<mode, PY2, self, alive>>

Call_validate_open_mode ==
    /\ op' = "validate_open_mode"
    /\ arg' = mode
    /\ ret' = validate_open_mode(mode).ret
    /\ exc' = validate_open_mode(mode).exc
    /\ UNCHANGED <<mode, PY2, self, alive>>

Call_validate_openbin_mode ==
    /\ op' = "validate_openbin_mode"
    /\ arg' = mode
    /\ ret' = None
    /\ exc' = validate_openbin_mode(mode)
    /\ UNCHANGED <<mode, PY2, self, alive>>

\* m = Mode(str(m)): the instance is rebuilt from its own string form
Call_Mode_str ==
    /\ alive
    /\ self' = Mode(__str__(self)).self
    /\ alive' = (Mode(__str__(self)).exc = NoError)
    /\ op' = "Mode(str)"
    /\ arg' = __str__(self)
    /\ ret' = None
    /\ exc' = Mode(__str__(self)).exc
    /\ UNCHANGED <<mode, PY2>>

Next ==
    \/ Call_Mode
    \/ Call_str
    \/ Call_repr
    \/ Call_contains
    \/ Call_to_platform
    \/ Call_validate
    \/ Call_validate_bin
    \/ Get_create
    \/ Get_reading
    \/ Get_writing
    \/ Get_appending
    \/ Get_updating
    \/ Get_truncate
    \/ Get_exclusive
    \/ Get_binary
    \/ Get_text
    \/ Call_check_readable
    \/ Call_check_writable
    \/ Call_validate_open_mode
    \/ Call_validate_openbin_mode
    \/ Call_Mode_str

Spec ==
    Init /\ [][Next]_vars

-----------------------------------------------------------------------------
(* Vocabulary of the properties, stated over the characters of a string   *)
(* and independent of the operators above                                  *)

Range(s) ==
    {s[i] : i \in DOMAIN s}

Flags ==
    {"r", "w", "x", "t", "a", "b", "+"}

StartFlags ==
    {"r", "w", "x", "a"}

\* the four construction rules
Accepted(s) ==
    /\ s # <<>>
    /\ Range(s) \subseteq Flags
    /\ s[1] \in StartFlags
    /\ ~ ({"t", "b"} \subseteq Range(s))

\* the calls that construct a Mode from the caller's string
Constructors ==
    {"Mode", "check_readable", "check_writable", "validate_open_mode"}

\* the reason of the first violated construction rule, in the order
\* empty > invalid characters > invalid first character > t with b
FirstViolated(s) ==
    IF s = <<>> THEN MSG_EMPTY
    ELSE IF ~ (Range(s) \subseteq Flags) THEN MSG_INVALID_CHARS
    ELSE IF s[1] \notin StartFlags THEN MSG_BAD_FIRST
    ELSE MSG_BIN_AND_TEXT

\* the binary-open grammar
OpenbinAccepted(s) ==
    /\ "t" \notin Range(s)
    /\ s # <<>>
    /\ s[1] \in StartFlags
    /\ Range(s) \subseteq {"r", "w", "x", "a", "b", "+"}

\* the reason by the precedence t present > empty > bad first > bad charset
OpenbinFirstViolated(s) ==
    IF "t" \in Range(s) THEN MSG_OPENBIN_TEXT
    ELSE IF s = <<>> THEN MSG_EMPTY
    ELSE IF s[1] \notin StartFlags THEN MSG_OPENBIN_BAD_FIRST
    ELSE MSG_INVALID_CHARS

\* the facet table: the value of facet f on raw string s
Table(f, s) ==
    LET has(c) == c \in Range(s)
    IN  CASE f = "create" -> has("w") \/ has("x")
          [] f = "reading" -> has("r") \/ has("+")
          [] f = "writing" -> has("w") \/ has("a") \/ has("+") \/ has("x")
          [] f = "appending" -> has("a")
          [] f = "updating" -> has("+")
          [] f = "truncate" -> has("w") \/ has("x")
          [] f = "exclusive" -> has("x")
          [] f = "binary" -> has("b")
          [] f = "text" -> has("t") \/ ~ has("b")

FacetNames ==
    {"create", "reading", "writing", "appending", "updating", "truncate",
     "exclusive", "binary", "text"}

\* the nine facets of an instance, as the properties compute them
Facets(slf) ==
    <<create(slf), reading(slf), writing(slf), appending(slf), updating(slf),
      truncate(slf), exclusive(slf), binary(slf), text(slf)>>

-----------------------------------------------------------------------------
(* Properties *)

\* C1: Mode(s) and validate_open_mode(s) both succeed exactly when s is
\* non-empty, all its characters are flags, it starts with r, w, x or a, and
\* it does not hold both t and b; otherwise both fail with ValueError.
C1_AcceptedExactly ==
    op \in {"Mode", "validate_open_mode"} =>
        /\ (exc = NoError) <=> Accepted(mode)
        /\ exc # NoError => exc.type = "ValueError"
        /\ op = "Mode" => (alive <=> Accepted(mode))

C1_Witness ==
    /\ op = "validate_open_mode"
    /\ mode = <<"r", "t", "b">>
    /\ exc.type = "ValueError"

\* C2: a failing construction reports the reason of the first violated rule
\* in the order empty > invalid characters > invalid first character >
\* t with b: "z" reports invalid characters, "tr" and "tb" the first
\* character.
C2_FirstViolatedRule ==
    (op \in Constructors /\ exc # NoError) =>
        /\ exc.template = FirstViolated(mode)
        /\ mode = <<"z">> => exc.template = MSG_INVALID_CHARS
        /\ mode = <<"t", "r">> => exc.template = MSG_BAD_FIRST
        /\ mode = <<"t", "b">> => exc.template = MSG_BAD_FIRST
        /\ exc.args = (IF exc.template = MSG_INVALID_CHARS THEN <<mode>> ELSE <<>>)

C2_Witness ==
    /\ op = "Mode"
    /\ mode = <<"t", "b">>
    /\ exc.template = MSG_BAD_FIRST

\* C3: validate_openbin_mode(s) succeeds exactly when s has no t, is
\* non-empty, starts with r, w, x or a and holds only r, w, x, a, b, +; a
\* failure reports by the precedence t present > empty > bad first character
\* > bad character set ("zt": text, "zr": first character, "rz": characters).
C3_OpenbinPrecedence ==
    op = "validate_openbin_mode" =>
        /\ (exc = NoError) <=> OpenbinAccepted(mode)
        /\ exc # NoError =>
            /\ exc.type = "ValueError"
            /\ exc.template = OpenbinFirstViolated(mode)
        /\ mode = <<"z", "t">> => exc.template = MSG_OPENBIN_TEXT
        /\ mode = <<"z", "r">> => exc.template = MSG_OPENBIN_BAD_FIRST
        /\ mode = <<"r", "z">> => exc.template = MSG_INVALID_CHARS

C3_Witness ==
    /\ op = "validate_openbin_mode"
    /\ mode = <<"z", "r">>
    /\ exc.template = MSG_OPENBIN_BAD_FIRST

\* C4: on an accepted string each of the nine facets equals its entry of the
\* facet table, and check_readable / check_writable return the reading /
\* writing entry for an accepted string and fail with the construction error
\* for a rejected one.
C4_FacetTable ==
    /\ op \in FacetNames => alive /\ Accepted(self._mode) /\ ret = Table(op, self._mode)
    /\ op = "check_readable" =>
        IF Accepted(mode)
        THEN exc = NoError /\ ret = Table("reading", mode)
        ELSE exc.type = "ValueError" /\ exc.template = FirstViolated(mode)
    /\ op = "check_writable" =>
        IF Accepted(mode)
        THEN exc = NoError /\ ret = Table("writing", mode)
        ELSE exc.type = "ValueError" /\ exc.template = FirstViolated(mode)

C4_Witness ==
    /\ op = "writing"
    /\ mode = <<"x", "b">>
    /\ ret = TRUE

\* C5: validate_bin on a constructed Mode fails with "mode must be binary"
\* exactly when the raw string holds t, succeeds otherwise (with or without
\* b), and leaves the raw string unchanged in both outcomes.
C5_ValidateBin ==
    /\ [](op = "validate_bin" =>
            /\ alive
            /\ exc = (IF "t" \in Range(self._mode)
                      THEN ValueError(MSG_MUST_BE_BINARY, <<>>)
                      ELSE NoError))
    /\ [][op' = "validate_bin" => self' = self]_vars

C5_Witness ==
    /\ op = "validate_bin"
    /\ self._mode = <<"r", "t">>
    /\ exc.template = MSG_MUST_BE_BINARY

\* C6: str(Mode(s)) = s for every accepted s; Mode(str(Mode(s))) is accepted
\* and equals Mode(s) in raw string and in all nine facets; no call changes
\* the raw string of a constructed Mode.
C6_RoundTrip ==
    /\ [](op = "__str__" => ret = mode)
    /\ [](op = "Mode(str)" => alive /\ exc = NoError /\ arg = mode /\ self._mode = mode)
    /\ [][alive => alive' /\ self'._mode = self._mode /\ Facets(self') = Facets(self)]_vars

C6_Witness ==
    /\ op = "Mode(str)"
    /\ alive
    /\ self._mode = <<"w", "+", "b">>

\* C7: to_platform returns the raw string unchanged off the legacy platform;
\* on it, the raw string without its x characters, the others in their
\* order: no x is left, and the result differs from the raw string only for
\* an exclusive mode.
C7_ToPlatform ==
    op = "to_platform" =>
        IF PY2
        THEN /\ ret = SelectSeq(self._mode, LAMBDA c : c # "x")
             /\ "x" \notin Range(ret)
             /\ (ret # self._mode) <=> ("x" \in Range(self._mode))
        ELSE ret = self._mode

C7_Witness ==
    /\ op = "to_platform"
    /\ PY2
    /\ mode = <<"x", "b", "x">>
    /\ ret = <<"b">>

\* C8: validate_openbin_mode(s) succeeds if and only if Mode(s) constructs
\* and validate_bin on it succeeds.
C8_BinaryPathsAgree ==
    op = "validate_openbin_mode" =>
        ((exc = NoError) <=>
            (Mode(mode).exc = NoError /\ validate_bin(Mode(mode).self) = NoError))

C8_Witness ==
    /\ op = "validate_openbin_mode"
    /\ mode = <<"a", "b", "+">>
    /\ exc = NoError

\* C9: the string to_platform returns for an accepted mode is itself
\* accepted by Mode construction, on both platforms.
C9_PlatformStringAccepted ==
    op = "to_platform" => Accepted(ret) /\ Mode(ret).exc = NoError

\* C10: on a constructed Mode exactly one of binary and text is true and at
\* least one of reading and writing is true; on unvalidated strings both can
\* fail ("tb" is binary and text, "t" neither reads nor writes).
C10_FacetInvariants ==
    /\ alive =>
        /\ binary(self) # text(self)
        /\ reading(self) \/ writing(self)
    /\ binary([_mode |-> <<"t", "b">>]) /\ text([_mode |-> <<"t", "b">>])
    /\ ~ reading([_mode |-> <<"t">>]) /\ ~ writing([_mode |-> <<"t">>])

C10_Witness ==
    /\ alive
    /\ op = "binary"
    /\ ret = TRUE
    /\ ~ text(self)

====
